---- MODULE Spec2Model ----
(***************************************************************************)
(* Matrix access layer of rs-pmml (src/src/matrix.rs): the Matrix trait    *)
(* and its four implementations DiagonalMatrix, SymmetricMatrix,           *)
(* DenseMatrix and SparseMatrix.                                           *)
(*                                                                         *)
(* A matrix is built once and then only read.  The state is the matrix     *)
(* instance `m` and the last trait call made on it (`op`, `args`) with its *)
(* outcome (`result`).  A Rust panic (index out of bounds, unwrap of None) *)
(* is the outcome Panic.  Vec<T> is a sequence; Rust indexes from 0, so    *)
(* v[i] is the element i + 1 of the sequence.  f64 values are modelled by  *)
(* small naturals, 0 standing for 0.0.  Option<T> is <<>> (None) or <<v>>  *)
(* (Some(v)).                                                              *)
(***************************************************************************)
EXTENDS Naturals, Sequences, FiniteSets

VARIABLES m, op, args, result

vars == <<m, op, args, result>>

(* ----------------------------- bounds ---------------------------------- *)

\* Largest number of rows / columns / diagonal values of a built matrix.
MaxDim == 2

\* Largest number of stored entries of a SparseMatrix.
MaxNnz == 2

\* Largest row index stored in row_indices of a SparseMatrix.
MaxRowIdx == 1

\* Stored f64 values (all different from the global default 0.0).
Vals == {1, 2}

\* Coordinates passed to get: in range and out of range.
Idx == 0 .. (MaxDim + 1)

(* --------------------------- Rust helpers ------------------------------ *)

None == <<>>

Some(v) == <<v>>

\* Option::unwrap_or
unwrap_or(o, d) == IF o = None THEN d ELSE o[1]

\* A call that returned v.
Ok(v) == [panic |-> FALSE, val |-> v]

\* A call that ended in a panic.
Panic == [panic |-> TRUE, val |-> 0]

\* Bounds-checked indexing v[i] of a Vec: panics when i >= v.len().
VecIndex(v, i) == IF i < Len(v) THEN Ok(v[i + 1]) ELSE Panic

\* Range indexing v[start..end] of a Vec: panics when start > end or
\* end > v.len().
VecSlice(v, start, end) ==
    IF start <= end /\ end <= Len(v)
    THEN Ok([k \in 1 .. (end - start) |-> v[start + k]])
    ELSE Panic

\* A mis-scan of the slice that stops at the first row >= x, as a lookup
\* that takes the column to be sorted would.
Position_SortedScan(s, x) ==
    LET hits == {p \in 1 .. Len(s) : s[p] >= x}
    IN  IF hits = {} THEN None
        ELSE LET p == CHOOSE q \in hits : \A r \in hits : q <= r
             IN  IF s[p] = x THEN Some(p - 1) ELSE None

\* Iterator::position(|&row| row == x): the 0-based place of the first
\* element equal to x, or None.
Position(s, x) ==
    LET hits == {p \in 1 .. Len(s) : s[p] = x}
    IN  IF hits = {} THEN None
        ELSE Some((CHOOSE p \in hits : \A q \in hits : p <= q) - 1)

(* --------------------------- DiagonalMatrix ---------------------------- *)

DiagonalMatrix_default(self) == Ok(0)

DiagonalMatrix_get_IgnoresOverride(self, i, j) ==
    IF i = j
    THEN VecIndex(self.values, i)
    ELSE DiagonalMatrix_default(self)

DiagonalMatrix_get(self, i, j) ==
    IF i = j
    THEN VecIndex(self.values, i)
    ELSE Ok(unwrap_or(self.off_diag_default, DiagonalMatrix_default(self).val))

DiagonalMatrix_diag_default(self) == Ok(None)

DiagonalMatrix_off_diag_default(self) == Ok(self.off_diag_default)

DiagonalMatrix_nb_rows(self) == Ok(Len(self.values))

DiagonalMatrix_nb_cols(self) == Ok(Len(self.values))

DiagonalMatrix_kind(self) == Ok("Diagonal")

(* --------------------------- SymmetricMatrix --------------------------- *)

SymmetricMatrix_default(self) == Ok(0)

\* The i > j branch reading row i directly instead of reflecting.
SymmetricMatrix_get_NoReflection(self, i, j) ==
    LET len == Len(self.values)
    IN  IF i >= len \/ j >= len
        THEN SymmetricMatrix_default(self)
        ELSE LET row_i == VecIndex(self.values, i)
             IN  IF row_i.panic THEN Panic
                 ELSE IF j < Len(row_i.val)
                      THEN VecIndex(row_i.val, j)
                      ELSE SymmetricMatrix_default(self)

\* The i > j branch tested against the length of row i (inner_len)
\* instead of the length of row j.
SymmetricMatrix_get_WrongLen(self, i, j) ==
    LET len == Len(self.values)
    IN  IF i >= len \/ j >= len
        THEN SymmetricMatrix_default(self)
        ELSE LET row_i == VecIndex(self.values, i)
                 row_j == VecIndex(self.values, j)
             IN  IF row_i.panic THEN Panic
                 ELSE LET inner_len == Len(row_i.val)
                      IN  IF i > j
                          THEN IF i < inner_len
                               THEN IF row_j.panic THEN Panic
                                    ELSE VecIndex(row_j.val, i)
                               ELSE SymmetricMatrix_default(self)
                          ELSE IF j < inner_len
                               THEN VecIndex(row_i.val, j)
                               ELSE SymmetricMatrix_default(self)

SymmetricMatrix_get(self, i, j) ==
    LET len == Len(self.values)
    IN  IF i >= len \/ j >= len
        THEN SymmetricMatrix_default(self)
        ELSE LET row_i == VecIndex(self.values, i)
                 row_j == VecIndex(self.values, j)
             IN  IF row_i.panic THEN Panic
                 ELSE LET inner_len == Len(row_i.val)
                      IN  IF i > j
                          THEN IF row_j.panic THEN Panic
                               ELSE IF i < Len(row_j.val)
                                    THEN VecIndex(row_j.val, i)
                                    ELSE SymmetricMatrix_default(self)
                          ELSE IF j < inner_len
                               THEN VecIndex(row_i.val, j)
                               ELSE SymmetricMatrix_default(self)

SymmetricMatrix_diag_default(self) == Ok(None)

SymmetricMatrix_off_diag_default(self) == Ok(None)

SymmetricMatrix_nb_rows(self) == Ok(Len(self.values))

\* values.last().unwrap().len(): unwrap panics on an empty Vec.
SymmetricMatrix_nb_cols(self) ==
    IF Len(self.values) = 0
    THEN Panic
    ELSE Ok(Len(self.values[Len(self.values)]))

SymmetricMatrix_kind(self) == Ok("Symmetric")

(* ----------------------------- DenseMatrix ----------------------------- *)

DenseMatrix_default(self) == Ok(0)

\* Row and column swapped in the read.
DenseMatrix_get_Transposed(self, i, j) ==
    IF j < Len(self.values)
    THEN LET row == VecIndex(self.values, j)
         IN  IF row.panic THEN Panic
             ELSE IF i < Len(row.val)
                  THEN VecIndex(row.val, i)
                  ELSE DenseMatrix_default(self)
    ELSE DenseMatrix_default(self)

DenseMatrix_get(self, i, j) ==
    IF i < Len(self.values)
    THEN LET row == VecIndex(self.values, i)
         IN  IF row.panic THEN Panic
             ELSE IF j < Len(row.val)
                  THEN VecIndex(row.val, j)
                  ELSE DenseMatrix_default(self)
    ELSE DenseMatrix_default(self)

DenseMatrix_diag_default(self) == Ok(None)

DenseMatrix_off_diag_default(self) == Ok(None)

DenseMatrix_nb_rows(self) == Ok(Len(self.values))

DenseMatrix_nb_cols(self) ==
    LET row == VecIndex(self.values, 0)
    IN  IF row.panic THEN Panic ELSE Ok(Len(row.val))

DenseMatrix_kind(self) == Ok("Any")

(* ----------------------------- SparseMatrix ---------------------------- *)

\* The found position returned relative to the column slice.
SparseMatrix_index_NoOffset(self, i, j) ==
    LET start == VecIndex(self.col_ptrs, j)
        end == VecIndex(self.col_ptrs, j + 1)
    IN  IF start.panic \/ end.panic THEN Panic
        ELSE LET slice == VecSlice(self.row_indices, start.val, end.val)
             IN  IF slice.panic THEN Panic
                 ELSE LET pos == Position(slice.val, i)
                      IN  IF pos = None THEN Ok(None)
                          ELSE Ok(Some(pos[1]))

SparseMatrix_index(self, i, j) ==
    LET start == VecIndex(self.col_ptrs, j)
        end == VecIndex(self.col_ptrs, j + 1)
    IN  IF start.panic \/ end.panic THEN Panic
        ELSE LET slice == VecSlice(self.row_indices, start.val, end.val)
             IN  IF slice.panic THEN Panic
                 ELSE LET pos == Position(slice.val, i)
                      IN  IF pos = None THEN Ok(None)
                          ELSE Ok(Some(start.val + pos[1]))

SparseMatrix_default(self) == Ok(0)

SparseMatrix_get(self, i, j) ==
    LET found == SparseMatrix_index(self, i, j)
    IN  IF found.panic THEN Panic
        ELSE IF found.val # None
             THEN VecIndex(self.values, found.val[1])
             ELSE IF i = j
                  THEN Ok(unwrap_or(self.diag_default,
                                    SparseMatrix_default(self).val))
                  ELSE Ok(unwrap_or(self.off_diag_default,
                                    SparseMatrix_default(self).val))

SparseMatrix_diag_default(self) == Ok(self.diag_default)

SparseMatrix_off_diag_default(self) == Ok(self.off_diag_default)

SparseMatrix_nb_rows(self) == Ok(self.nb_rows)

SparseMatrix_nb_cols(self) == Ok(self.nb_cols)

SparseMatrix_kind_Sparse(self) == Ok("Sparse")

SparseMatrix_kind(self) == Ok("Any")

(* ------------------- the Matrix trait (dynamic dispatch) --------------- *)

Matrix_get(self, i, j) ==
    CASE self.variant = "Diagonal"  -> DiagonalMatrix_get(self, i, j)
      [] self.variant = "Symmetric" -> SymmetricMatrix_get(self, i, j)
      [] self.variant = "Dense"     -> DenseMatrix_get(self, i, j)
      [] self.variant = "Sparse"    -> SparseMatrix_get(self, i, j)

Matrix_default(self) ==
    CASE self.variant = "Diagonal"  -> DiagonalMatrix_default(self)
      [] self.variant = "Symmetric" -> SymmetricMatrix_default(self)
      [] self.variant = "Dense"     -> DenseMatrix_default(self)
      [] self.variant = "Sparse"    -> SparseMatrix_default(self)

Matrix_diag_default(self) ==
    CASE self.variant = "Diagonal"  -> DiagonalMatrix_diag_default(self)
      [] self.variant = "Symmetric" -> SymmetricMatrix_diag_default(self)
      [] self.variant = "Dense"     -> DenseMatrix_diag_default(self)
      [] self.variant = "Sparse"    -> SparseMatrix_diag_default(self)

Matrix_off_diag_default(self) ==
    CASE self.variant = "Diagonal"  -> DiagonalMatrix_off_diag_default(self)
      [] self.variant = "Symmetric" -> SymmetricMatrix_off_diag_default(self)
      [] self.variant = "Dense"     -> DenseMatrix_off_diag_default(self)
      [] self.variant = "Sparse"    -> SparseMatrix_off_diag_default(self)

Matrix_nb_rows(self) ==
    CASE self.variant = "Diagonal"  -> DiagonalMatrix_nb_rows(self)
      [] self.variant = "Symmetric" -> SymmetricMatrix_nb_rows(self)
      [] self.variant = "Dense"     -> DenseMatrix_nb_rows(self)
      [] self.variant = "Sparse"    -> SparseMatrix_nb_rows(self)

Matrix_nb_cols(self) ==
    CASE self.variant = "Diagonal"  -> DiagonalMatrix_nb_cols(self)
      [] self.variant = "Symmetric" -> SymmetricMatrix_nb_cols(self)
      [] self.variant = "Dense"     -> DenseMatrix_nb_cols(self)
      [] self.variant = "Sparse"    -> SparseMatrix_nb_cols(self)

Matrix_kind(self) ==
    CASE self.variant = "Diagonal"  -> DiagonalMatrix_kind(self)
      [] self.variant = "Symmetric" -> SymmetricMatrix_kind(self)
      [] self.variant = "Dense"     -> DenseMatrix_kind(self)
      [] self.variant = "Sparse"    -> SparseMatrix_kind(self)

(* ------------------------- constructed instances ----------------------- *)

\* Option<f64> override of a DiagonalMatrix: absent, 0.0, or a value that
\* is also stored.
OptVals == {None, Some(0), Some(2)}

\* Option<f64> overrides of a SparseMatrix: absent or present, the two
\* overrides different from each other and each equal to a storable value.
DiagOptVals == {None, Some(1)}

OffDiagOptVals == {None, Some(2)}

\* Vec<f64> of length at most MaxDim.
Rows == UNION {[1 .. l -> Vals] : l \in 0 .. MaxDim}

\* Vec<Vec<f64>> with at most MaxDim rows, rows of any length up to MaxDim:
\* the fields are filled in by struct literals and nothing validates them.
Ragged == UNION {[1 .. n -> Rows] : n \in 0 .. MaxDim}

DiagonalMatrices ==
    {[variant |-> "Diagonal", values |-> v, off_diag_default |-> o] :
        v \in Rows, o \in OptVals}

SymmetricMatrices == {[variant |-> "Symmetric", values |-> v] : v \in Ragged}

DenseMatrices == {[variant |-> "Dense", values |-> v] : v \in Ragged}

\* col_ptrs of a compressed-sparse-column layout with nc columns and nnz
\* stored entries: nc + 1 offsets, from 0 to nnz, non-decreasing.
ColPtrs(nc, nnz) ==
    {cp \in [1 .. (nc + 1) -> 0 .. nnz] :
        /\ cp[1] = 0
        /\ cp[nc + 1] = nnz
        /\ \A c \in 1 .. nc : cp[c] <= cp[c + 1]}

\* Compressed-sparse-column instances; a row may repeat within a column and
\* a stored row may lie beyond the declared nb_rows.
SparseMatrices ==
    UNION {
      {[variant |-> "Sparse", nb_rows |-> nr, nb_cols |-> nc, col_ptrs |-> cp,
        row_indices |-> ri, values |-> vs,
        diag_default |-> dd, off_diag_default |-> od] :
          nr \in {1, MaxDim}, cp \in ColPtrs(nc, nnz),
          ri \in [1 .. nnz -> 0 .. MaxRowIdx], vs \in [1 .. nnz -> Vals],
          dd \in DiagOptVals, od \in OffDiagOptVals} :
      nc \in 0 .. MaxDim, nnz \in 0 .. MaxNnz}

NoResult == Ok(0)

InitWith(S) ==
    /\ m \in S
    /\ op = "new"
    /\ args = <<>>
    /\ result = NoResult

Init == InitWith(DiagonalMatrices \cup SymmetricMatrices \cup DenseMatrices
                 \cup SparseMatrices)

InitDiagonal == InitWith(DiagonalMatrices)

InitSymmetric == InitWith(SymmetricMatrices)

InitDense == InitWith(DenseMatrices)

InitSparse == InitWith(SparseMatrices)

(* ------------------------------- calls --------------------------------- *)

Get ==
    \E i \in Idx, j \in Idx :
        /\ op' = "get"
        /\ args' = <<i, j>>
        /\ result' = Matrix_get(m, i, j)
        /\ UNCHANGED m

Default ==
    /\ op' = "default"
    /\ args' = <<>>
    /\ result' = Matrix_default(m)
    /\ UNCHANGED m

DiagDefault ==
    /\ op' = "diag_default"
    /\ args' = <<>>
    /\ result' = Matrix_diag_default(m)
    /\ UNCHANGED m

OffDiagDefault ==
    /\ op' = "off_diag_default"
    /\ args' = <<>>
    /\ result' = Matrix_off_diag_default(m)
    /\ UNCHANGED m

NbRows ==
    /\ op' = "nb_rows"
    /\ args' = <<>>
    /\ result' = Matrix_nb_rows(m)
    /\ UNCHANGED m

NbCols ==
    /\ op' = "nb_cols"
    /\ args' = <<>>
    /\ result' = Matrix_nb_cols(m)
    /\ UNCHANGED m

Kind ==
    /\ op' = "kind"
    /\ args' = <<>>
    /\ result' = Matrix_kind(m)
    /\ UNCHANGED m

Next ==
    \/ Get
    \/ Default
    \/ DiagDefault
    \/ OffDiagDefault
    \/ NbRows
    \/ NbCols
    \/ Kind

Spec == Init /\ [][Next]_vars

SpecDiagonal == InitDiagonal /\ [][Next]_vars

SpecSymmetric == InitSymmetric /\ [][Next]_vars

SpecDense == InitDense /\ [][Next]_vars

SpecSparse == InitSparse /\ [][Next]_vars

(* ======================= properties of the calls ====================== *)

IsGet == op = "get"

Min(a, b) == IF a <= b THEN a ELSE b

Max(a, b) == IF a >= b THEN a ELSE b

\* The last call was op() on a matrix of the given variant.
Called(variant, name) == m.variant = variant /\ op = name

(* ----------------------------- SymmetricMatrix ------------------------ *)

\* Ragged invariant: row i holds exactly i + 1 entries.
RaggedInvariant(self) ==
    \A r \in 1 .. Len(self.values) : Len(self.values[r]) = r

\* C2: for a SymmetricMatrix honoring the ragged invariant and i, j < n,
\* get(i, j) = values[max(i, j)][min(i, j)] (lower-triangle read, reflected
\* for j > i).
C2_SymmetricLowerTriangle ==
    (/\ Called("Symmetric", "get")
     /\ RaggedInvariant(m)
     /\ args[1] < Len(m.values)
     /\ args[2] < Len(m.values))
    => result = Ok(m.values[Max(args[1], args[2]) + 1][Min(args[1], args[2]) + 1])

\* C7: for every SymmetricMatrix, whatever its ragged contents, and every
\* (i, j), get(i, j) = get(j, i).
C7_SymmetricGetSymmetric ==
    Called("Symmetric", "get")
    => result = SymmetricMatrix_get(m, args[2], args[1])

\* A read of an off-diagonal cell that is stored: both orders return it.
C7_Witness ==
    /\ Called("Symmetric", "get")
    /\ args[1] > args[2]
    /\ ~result.panic
    /\ result.val # 0
    /\ result = SymmetricMatrix_get(m, args[2], args[1])

Rectangular(self) ==
    /\ Len(self.values) > 0
    /\ \A r \in 1 .. Len(self.values) : Len(self.values[r]) = Len(self.values[1])

\* C4: for a rectangular, non-empty DenseMatrix, get(i, j) = values[i][j] for
\* i < nb_rows() and j < nb_cols(), and get(i, j) = 0.0 otherwise.
C4_DenseFidelity ==
    (Called("Dense", "get") /\ Rectangular(m))
    => result = IF /\ args[1] < DenseMatrix_nb_rows(m).val
                   /\ args[2] < DenseMatrix_nb_cols(m).val
                THEN Ok(m.values[args[1] + 1][args[2] + 1])
                ELSE Ok(0)

\* An in-range off-diagonal read of a rectangular matrix whose transposed
\* cell holds another value.
C4_Witness ==
    /\ Called("Dense", "get")
    /\ Rectangular(m)
    /\ args[1] # args[2]
    /\ args[1] < Len(m.values)
    /\ args[2] < Len(m.values[1])
    /\ args[2] < Len(m.values)
    /\ args[1] < Len(m.values[1])
    /\ m.values[args[1] + 1][args[2] + 1] # m.values[args[2] + 1][args[1] + 1]
    /\ result = Ok(m.values[args[1] + 1][args[2] + 1])

(* ------------------------------ DiagonalMatrix ------------------------ *)

\* C5: for a DiagonalMatrix of n values, get(i, i) = values[i] for i < n and
\* get(i, j) = off_diag_default.unwrap_or(0.0) for every i # j.
C5_DiagonalFidelity ==
    Called("Diagonal", "get")
    => /\ (args[1] = args[2] /\ args[1] < Len(m.values))
            => result = Ok(m.values[args[1] + 1])
       /\ args[1] # args[2]
            => result = Ok(unwrap_or(m.off_diag_default, 0))

\* An off-diagonal read that returns a non-zero override differing from the
\* stored diagonal values of its row and column.
C5_Witness ==
    /\ Called("Diagonal", "get")
    /\ args[1] # args[2]
    /\ args[1] < Len(m.values)
    /\ args[2] < Len(m.values)
    /\ m.off_diag_default = Some(2)
    /\ m.values[args[1] + 1] = 1
    /\ m.values[args[2] + 1] = 1
    /\ result = Ok(2)

(* ------------------------------- SparseMatrix ------------------------- *)

\* Places k (0-based) of column j: col_ptrs[j] <= k < col_ptrs[j + 1].
Segment(self, j) ==
    {k \in 0 .. (Len(self.row_indices) - 1) :
        self.col_ptrs[j + 1] <= k /\ k < self.col_ptrs[j + 2]}

\* Compressed-sparse-column invariants of the data model.
CSCInvariant(self) ==
    /\ Len(self.col_ptrs) = self.nb_cols + 1
    /\ self.col_ptrs[1] = 0
    /\ self.col_ptrs[self.nb_cols + 1] = Len(self.row_indices)
    /\ \A c \in 1 .. self.nb_cols : self.col_ptrs[c] <= self.col_ptrs[c + 1]
    /\ Len(self.values) = Len(self.row_indices)
    /\ \A j \in 0 .. (self.nb_cols - 1) :
         \A k1, k2 \in Segment(self, j) :
            self.row_indices[k1 + 1] = self.row_indices[k2 + 1] => k1 = k2

\* C3: under the CSC invariants, for every row i and column j < nb_cols:
\* get(i, j) = values[k] when place k of column j stores row i, otherwise
\* diag_default.unwrap_or(0.0) for i = j and off_diag_default.unwrap_or(0.0)
\* for i # j.
C3_SparseLookup ==
    (Called("Sparse", "get") /\ CSCInvariant(m) /\ args[2] < m.nb_cols)
    => LET stored == {k \in Segment(m, args[2]) : m.row_indices[k + 1] = args[1]}
       IN  IF stored # {}
           THEN \A k \in stored : result = Ok(m.values[k + 1])
           ELSE result = IF args[1] = args[2]
                         THEN Ok(unwrap_or(m.diag_default, 0))
                         ELSE Ok(unwrap_or(m.off_diag_default, 0))

\* A hit in the second column, on a row beyond the declared nb_rows, stored
\* behind an entry of the first column that holds another value.
C3_Witness ==
    /\ Called("Sparse", "get")
    /\ CSCInvariant(m)
    /\ args[2] = 1
    /\ args[2] < m.nb_cols
    /\ args[1] >= m.nb_rows
    /\ m.col_ptrs[2] = 1
    /\ \E k \in Segment(m, 1) :
         /\ m.row_indices[k + 1] = args[1]
         /\ m.values[k + 1] # m.values[1]
         /\ result = Ok(m.values[k + 1])

\* Permutations of the stored entries that keep every entry in its column.
SegmentPermutations(self) ==
    LET n == Len(self.row_indices)
    IN  {p \in [1 .. n -> 1 .. n] :
           /\ \A a, b \in 1 .. n : p[a] = p[b] => a = b
           /\ \A a \in 1 .. n : \A j \in 0 .. (self.nb_cols - 1) :
                (a - 1) \in Segment(self, j) <=> (p[a] - 1) \in Segment(self, j)}

\* self with row_indices and values permuted together by p.
Permuted(self, p) ==
    [self EXCEPT !.row_indices = [k \in 1 .. Len(self.row_indices) |->
                                     self.row_indices[p[k]]],
                 !.values = [k \in 1 .. Len(self.values) |-> self.values[p[k]]]]

\* C10: under the CSC invariants, permuting the stored entries inside the
\* column segments (row_indices and values together) leaves get(i, j)
\* unchanged for every row i and every column j < nb_cols.
C10_SparseOrderIndependent ==
    (Called("Sparse", "get") /\ CSCInvariant(m) /\ args[2] < m.nb_cols)
    => \A p \in SegmentPermutations(m) :
          SparseMatrix_get(Permuted(m, p), args[1], args[2]) = result

\* A hit on the smaller row of a column stored in descending row order, with
\* a permutation that really moves the entries.
C10_Witness ==
    /\ Called("Sparse", "get")
    /\ CSCInvariant(m)
    /\ args[2] < m.nb_cols
    /\ \E k \in Segment(m, args[2]) :
         /\ k + 1 \in Segment(m, args[2])
         /\ m.row_indices[k + 1] > m.row_indices[k + 2]
         /\ m.row_indices[k + 2] = args[1]
         /\ m.values[k + 1] # m.values[k + 2]
         /\ result = Ok(m.values[k + 2])
    /\ \E p \in SegmentPermutations(m) : Permuted(m, p) # m

(* ----------------------------- all variants --------------------------- *)

\* C1: for every variant and every (i, j), get(i, j) returns a value and
\* never faults.
C1_GetNeverFaults == IsGet => ~result.panic

\* C6: a call of the contract (SparseMatrix under the CSC invariants) ends
\* in a fatal fault if and only if it is DiagonalMatrix.get(i, i) with
\* i >= values.len(), DenseMatrix.nb_cols() on no rows, or
\* SymmetricMatrix.nb_cols() on no rows.
C6_FaultsExactlyThree ==
    (op # "new" /\ (m.variant = "Sparse" => CSCInvariant(m)))
    => (result.panic <=>
          \/ /\ Called("Diagonal", "get")
             /\ args[1] = args[2]
             /\ args[1] >= Len(m.values)
          \/ Called("Dense", "nb_cols") /\ Len(m.values) = 0
          \/ Called("Symmetric", "nb_cols") /\ Len(m.values) = 0)

\* The faults of the code as it stands: the three calls above and
\* SparseMatrix.get(i, j) with j >= nb_cols (col_ptrs[j + 1] out of bounds).
FaultsOfTheCode ==
    (op # "new" /\ (m.variant = "Sparse" => CSCInvariant(m)))
    => (result.panic <=>
          \/ /\ Called("Diagonal", "get")
             /\ args[1] = args[2]
             /\ args[1] >= Len(m.values)
          \/ Called("Dense", "nb_cols") /\ Len(m.values) = 0
          \/ Called("Symmetric", "nb_cols") /\ Len(m.values) = 0
          \/ Called("Sparse", "get") /\ args[2] >= m.nb_cols)

\* C8: kind() depends on the variant alone: Diagonal for DiagonalMatrix,
\* Symmetric for SymmetricMatrix, Any for DenseMatrix and SparseMatrix.
C8_KindOfVariant ==
    op = "kind"
    => result = Ok(CASE m.variant = "Diagonal"  -> "Diagonal"
                     [] m.variant = "Symmetric" -> "Symmetric"
                     [] m.variant = "Dense"     -> "Any"
                     [] m.variant = "Sparse"    -> "Any")

\* kind() called on a SparseMatrix with stored entries.
C8_Witness ==
    /\ Called("Sparse", "kind")
    /\ Len(m.values) > 0
    /\ result = Ok("Any")

====
